---------------------------- MODULE Spec2Model ----------------------------
(***************************************************************************)
(* Model of the conversation-state and request-orchestration code of the   *)
(* RAG service: the session store (backend/app/services/memory.py), the    *)
(* chat, session and index handlers (backend/app/api/routes.py), the       *)
(* chunker (backend/app/services/document.py) and the point store          *)
(* (backend/app/services/vectordb.py).                                     *)
(*                                                                         *)
(* Handlers are coroutines (async def) of one event loop.  A handler is    *)
(* modelled statement by statement; the loop starts a handler only when    *)
(* no other handler is between its start and its return, because the chat  *)
(* and session handlers contain no await.                                  *)
(***************************************************************************)
EXTENDS Integers, Sequences, FiniteSets, TLC

(* ------------------------------ bounds -------------------------------- *)
MaxSessions == 2
MaxLog == 4
MaxTicks == 2
MaxHistoryBound == 2
MaxTextLen == 5
MaxChunkSize == 3
MaxOverlap == 3
MaxResults == 3
MaxDocs == 1
MaxDocLen == 3
MaxMsgs == 6

(* ------------------------- program constants -------------------------- *)
SessionTimeoutHours == 24
HistoryLastN == 5
DefaultTopK == 3

NoneId == 0
UnknownId == -1
NoneN == -1
FallbackAnswer == "I don't have enough information to answer this question. Please index some documents first."
HistoryHeader == <<"Previous conversation:">>

\* Two request slots: two handlers can be in flight at once.
Reqs == {1, 2}
Roles == {"user", "assistant"}
Queries == {"q1"}
Answers == {"a1"}
\* A string that is taken apart or put together is a sequence of characters.
DocTxt == <<"d", ".", "t", "x", "t">>
R1 == [text |-> "t1", source |-> DocTxt, chunk_id |-> 0]
R2 == [text |-> "t2", source |-> DocTxt, chunk_id |-> 1]
\* The clock advances in steps of the timeout, so that an age equal to the
\* timeout and an age above it both occur.
TickHours == SessionTimeoutHours

VARIABLES
    max_history_per_session, \* SessionMemoryService.max_history_per_session
    sessions,                \* SessionMemoryService.sessions: id -> session object
    detached,                \* session objects removed from the registry and still referenced
    nextId,                  \* the next identifier uuid4 hands out
    now,                     \* datetime.now(), in hours
    pc,                      \* position of each request's handler
    loc,                     \* locals of each request's handler
    log,                     \* history: messages appended to a session since it was last empty
    text, chunk_size, overlap,        \* chunk_text's arguments
    words, chunks, chunk_i, chunk_pc, \* chunk_text's locals and its position
    src_results, src_sources, src_pc, \* chat's source list: search results, labels, position
    src_context,             \* chat's context block for the search results
    filename,                \* index_document: file.filename
    idx_pc,                  \* index_document: position of the handler
    embeddings,              \* index_document: the embeddings list
    store,                   \* the vector index: the points stored, oldest first
    nextPoint,               \* the next point id uuid4 hands out
    idx_resp,                \* index_document: the response
    embed_calls,             \* number of generate_embeddings calls of the request
    store_before,            \* the vector index when the request started
    docs                     \* number of index requests so far

svars == <<max_history_per_session, sessions, detached, nextId, now, pc, loc, log>>
cvars == <<text, chunk_size, overlap, words, chunks, chunk_i, chunk_pc>>
qvars == <<src_results, src_sources, src_pc, src_context>>
ivars == <<filename, idx_pc, embeddings, store, nextPoint, idx_resp, embed_calls,
           store_before, docs>>
vars == <<max_history_per_session, sessions, detached, nextId, now, pc, loc, log,
          text, chunk_size, overlap, words, chunks, chunk_i, chunk_pc,
          src_results, src_sources, src_pc, src_context,
          filename, idx_pc, embeddings, store, nextPoint, idx_resp, embed_calls,
          store_before, docs>>

(* ------------------------------ helpers ------------------------------- *)
Max(a, b) == IF a >= b THEN a ELSE b
Min(a, b) == IF a <= b THEN a ELSE b

\* Python s[-n:] for n >= 0: -0 is 0, so s[-0:] is the whole list.
SliceFirst(s, n) == SubSeq(s, 1, Min(n, Len(s)))
SliceLast(s, n) ==
    LET start == IF n = 0 THEN 0 ELSE Max(Len(s) - n, 0)
    IN  SubSeq(s, start + 1, Len(s))

EmptyReg == [i \in {} |-> 0]
PutAlone(f, k, v) == [i \in {k} |-> v]
Put(f, k, v) == [i \in (DOMAIN f) \cup {k} |-> IF i = k THEN v ELSE f[i]]
Drop(f, k) == [i \in (DOMAIN f) \ {k} |-> f[i]]

\* Message.timestamp and ConversationSession.created_at are written once and
\* read only by to_dict; they are left out of the state.
Message(role, content) == [role |-> role, content |-> content]

ConversationSessionLooser(id, max_history) ==
    [session_id |-> id, messages |-> <<>>, max_history |-> max_history + 1,
     last_access |-> now]
ConversationSession(id, max_history) ==
    [session_id |-> id, messages |-> <<>>, max_history |-> max_history,
     last_access |-> now]

Capitalize(role) == IF role = "user" THEN "User"
                    ELSE IF role = "assistant" THEN "Assistant" ELSE role

NoResp == [status |-> 0, answer |-> "", sources |-> <<>>, session_id |-> NoneId,
           value |-> <<>>]

NoLoc == [op |-> "none", sid |-> NoneId, role |-> "user", content |-> "",
          last_n |-> NoneN, top_k |-> 0, results |-> <<>>, context |-> <<>>,
          sources |-> <<>>, history |-> <<>>, answer |-> "", session_id |-> NoneId,
          am_sid |-> NoneId, am_role |-> "user", am_content |-> "", after |-> "idle",
          sess |-> NoneId, slice |-> <<>>, am_result |-> NoneId,
          t |-> 0, expired |-> {}, resp |-> NoResp, gen_calls |-> <<>>, created |-> 0,
          before |-> EmptyReg]

\* What is left of a handler's locals once it has returned: the request,
\* the response, and the history variables.
Returned(l, resp) ==
    [NoLoc EXCEPT !.op = l.op, !.sid = l.sid, !.last_n = l.last_n,
                  !.content = l.content, !.results = l.results, !.resp = resp,
                  !.gen_calls = l.gen_calls, !.created = l.created,
                  !.before = l.before]

\* The identifiers a client can send: none, one it made up, or one it was given
\* (which may have been deleted since).
IssuedIds == 1..(nextId - 1)
ClientIds == {NoneId, UnknownId} \cup IssuedIds

\* The model's bounds on a request that stores k messages: the messages kept
\* in the history variable stay within MaxLog, the sessions ever created
\* within MaxSessions.
Known(sid) == sid # NoneId /\ sid \in DOMAIN sessions
RECURSIVE Stored(_)
Stored(ids) == IF ids = {} THEN 0
               ELSE LET i == CHOOSE j \in ids : TRUE
                    IN  Len(log[i]) + Stored(ids \ {i})
Room(sid, k) == /\ Stored(DOMAIN log) + k <= MaxLog
                /\ Known(sid) \/ nextId <= MaxSessions

(* --------------------------- the event loop --------------------------- *)
\* A request in flight takes the lowest free slot.  A handler with no await
\* runs from its start to its return with no other handler running in
\* between, so the loop starts one only when no other is in flight.
Idle(q) == pc[q] = "idle"
LowestFree(r) == Idle(r) /\ \A q \in Reqs : q < r => ~Idle(q)
HandlerMayRunThreaded(r) == LowestFree(r)
HandlerMayRun(r) == LowestFree(r) /\ \A q \in Reqs \ {r} : Idle(q)

(* ------------------- ConversationSession (memory.py) ------------------ *)
\* A session object is reached through the registry or, once deleted from it,
\* through the reference a running add_message still holds.
Obj(id) == IF id \in DOMAIN sessions THEN sessions[id] ELSE detached[id]

AmInside == {"am_append", "am_trunc", "am_assign"}
Held(id, r) == \E q \in Reqs \ {r} : pc[q] \in AmInside /\ loc[q].sess = id

\* ConversationSession.add_message, lines 40-42: append, then touch last_access.
SessionAppend(s, role, content) ==
    [s EXCEPT !.messages = Append(@, Message(role, content)), !.last_access = now]

\* ConversationSession.add_message, lines 45-46.
OverBound(s) == Len(s.messages) > s.max_history
TruncatedKeepsFirst(s) == SubSeq(s.messages, 1, Min(Len(s.messages), s.max_history))
Truncated(s) == SliceLast(s.messages, s.max_history)

\* ConversationSession.get_history.
SessionHistory(s, last_n) ==
    IF last_n = NoneN THEN s.messages ELSE SliceLast(s.messages, last_n)

(* ------------------- SessionMemoryService (memory.py) ----------------- *)
session_timeout == SessionTimeoutHours

\* get_session, line 110: the lazy expiry check.
ExpiredOnAccessAtTimeout(s) == now - s.last_access >= session_timeout
ExpiredOnAccess(s) == now - s.last_access > session_timeout
\* cleanup_expired_sessions, line 174: the sweep's check against its own now.
ExpiredOnSweepAtTimeout(s, t) == t - s.last_access >= session_timeout
ExpiredOnSweep(s, t) == t - s.last_access > session_timeout

IsNew(sid) == sid = NoneId \/ sid \notin DOMAIN sessions

\* get_session(sid): the registry, the identifier counter and the history
\* variable after the call; Resolved(sid) is the session it returns.
Resolved(sid) == IF IsNew(sid) THEN nextId ELSE sid
get_session(sid) ==
    IF IsNew(sid)
    THEN /\ sessions' = Put(sessions, nextId,
                            ConversationSession(nextId, max_history_per_session))
         /\ nextId' = nextId + 1
         /\ log' = Put(log, nextId, <<>>)
    ELSE IF ExpiredOnAccess(sessions[sid])
    THEN /\ sessions' = [sessions EXCEPT ![sid].messages = <<>>]
         /\ log' = [log EXCEPT ![sid] = <<>>]
         /\ UNCHANGED nextId
    ELSE UNCHANGED <<sessions, nextId, log>>

\* get_conversation_history(sid, last_n).
GetConversationHistory(sid, last_n) ==
    IF sid = NoneId \/ sid \notin DOMAIN sessions THEN <<>>
    ELSE SessionHistory(sessions[sid], last_n)

\* get_conversation_context(sid, last_n): the header line, then one line per message.
GetConversationContext(sid, last_n) ==
    LET messages == GetConversationHistory(sid, last_n)
    IN  IF messages = <<>> THEN <<>>
        ELSE <<HistoryHeader>> \o
             [i \in 1..Len(messages) |->
                 <<Capitalize(messages[i].role), ": ", messages[i].content>>]

(* ---------- SessionMemoryService.add_message, step by step ------------ *)
\* The call and line 121, session = self.get_session(session_id): the
\* caller's locals l with the call's arguments and the session it got.
EnterAddMessage(r, l, sid, role, content, after) ==
    /\ get_session(sid)
    /\ loc' = [loc EXCEPT ![r] =
                  [l EXCEPT !.am_sid = sid, !.am_role = role, !.am_content = content,
                            !.after = after, !.sess = Resolved(sid),
                            !.created = @ + (IF IsNew(sid) THEN 1 ELSE 0)]]
    /\ pc' = [pc EXCEPT ![r] = "am_append"]
    /\ UNCHANGED <<max_history_per_session, detached, now>>

\* line 122, ConversationSession.add_message lines 40-42
AmAppend(r) ==
    LET id == loc[r].sess
        s2 == SessionAppend(Obj(id), loc[r].am_role, loc[r].am_content)
    IN  /\ pc[r] = "am_append"
        /\ IF id \in DOMAIN sessions
           THEN /\ sessions' = [sessions EXCEPT ![id] = s2]
                /\ log' = [log EXCEPT ![id] =
                              Append(@, Message(loc[r].am_role, loc[r].am_content))]
                /\ UNCHANGED detached
           ELSE /\ detached' = [detached EXCEPT ![id] = s2]
                /\ UNCHANGED <<sessions, log>>
        /\ pc' = [pc EXCEPT ![r] = "am_trunc"]
        /\ UNCHANGED <<max_history_per_session, nextId, now, loc>>

\* line 123, return session.session_id: back in the caller, the object is
\* no longer referenced from here.
LeaveAddMessage(r) ==
    LET id == loc[r].sess
    IN  /\ loc' = [loc EXCEPT ![r].am_result = Obj(id).session_id,
                              ![r].sess = NoneId, ![r].slice = <<>>]
        /\ pc' = [pc EXCEPT ![r] = loc[r].after]

Release(id, r) == IF id \in DOMAIN detached /\ ~Held(id, r)
                  THEN Drop(detached, id) ELSE detached

\* ConversationSession.add_message line 45 and the right-hand side of line 46;
\* when the bound holds, add_message returns.
AmTrunc(r) ==
    LET s == Obj(loc[r].sess)
    IN  /\ pc[r] = "am_trunc"
        /\ IF OverBound(s)
           THEN /\ loc' = [loc EXCEPT ![r].slice = Truncated(s)]
                /\ pc' = [pc EXCEPT ![r] = "am_assign"]
                /\ UNCHANGED detached
           ELSE /\ LeaveAddMessage(r)
                /\ detached' = Release(loc[r].sess, r)
        /\ UNCHANGED <<max_history_per_session, sessions, nextId, now, log>>

\* ConversationSession.add_message line 46: self.messages = <the slice>, then return
AmAssign(r) ==
    LET id == loc[r].sess
    IN  /\ pc[r] = "am_assign"
        /\ IF id \in DOMAIN sessions
           THEN /\ sessions' = [sessions EXCEPT ![id].messages = loc[r].slice]
                /\ UNCHANGED detached
           ELSE /\ detached' = IF Held(id, r)
                               THEN [detached EXCEPT ![id].messages = loc[r].slice]
                               ELSE Drop(detached, id)
                /\ UNCHANGED sessions
        /\ LeaveAddMessage(r)
        /\ UNCHANGED <<max_history_per_session, nextId, now, log>>

(* ------------- the session store's one-statement operations ---------- *)
Ok(value, id) == [NoResp EXCEPT !.status = 200, !.value = value, !.session_id = id]
Request(op, sid, last_n) == [NoLoc EXCEPT !.op = op, !.sid = sid, !.last_n = last_n]

\* get_session(sid) called on its own (getOrCreate): the caller gets the
\* session object, seen here as its identifier and its messages.
OpGetSession(r) ==
    \E sid \in ClientIds :
        /\ HandlerMayRun(r)
        /\ IsNew(sid) => nextId <= MaxSessions
        /\ get_session(sid)
        /\ loc' = [loc EXCEPT ![r] =
                      Returned([Request("get_session", sid, NoneN) EXCEPT
                                   !.created = IF IsNew(sid) THEN 1 ELSE 0],
                               Ok(sessions'[Resolved(sid)].messages, Resolved(sid)))]
        /\ pc' = [pc EXCEPT ![r] = "done"]
        /\ UNCHANGED <<max_history_per_session, detached, now>>

LastNs == {NoneN, 0, 1}

OpHistory(r) ==
    \E sid \in ClientIds, last_n \in LastNs :
        /\ HandlerMayRun(r)
        /\ loc' = [loc EXCEPT ![r] =
                      Returned(Request("history", sid, last_n),
                               Ok(GetConversationHistory(sid, last_n), sid))]
        /\ pc' = [pc EXCEPT ![r] = "done"]
        /\ UNCHANGED <<max_history_per_session, sessions, detached, nextId, now, log>>

OpContext(r) ==
    \E sid \in ClientIds, last_n \in {HistoryLastN} :
        /\ HandlerMayRun(r)
        /\ loc' = [loc EXCEPT ![r] =
                      Returned(Request("context", sid, last_n),
                               Ok(GetConversationContext(sid, last_n), sid))]
        /\ pc' = [pc EXCEPT ![r] = "done"]
        /\ UNCHANGED <<max_history_per_session, sessions, detached, nextId, now, log>>

\* get_active_sessions_count() on a registry.
ActiveCount(reg) == Cardinality(DOMAIN reg)

\* The GET /sessions/stats route: the count of registered sessions
OpStats(r) ==
    /\ HandlerMayRun(r)
    /\ loc' = [loc EXCEPT ![r] =
                  Returned(Request("stats", NoneId, NoneN),
                           Ok(<<ActiveCount(sessions)>>, NoneId))]
    /\ pc' = [pc EXCEPT ![r] = "done"]
    /\ UNCHANGED <<max_history_per_session, sessions, detached, nextId, now, log>>

\* clear_session(sid), with ConversationSession.clear
OpClear(r) ==
    \E sid \in ClientIds \ {NoneId} :
        /\ HandlerMayRun(r)
        /\ IF sid \in DOMAIN sessions
           THEN /\ sessions' = [sessions EXCEPT ![sid].messages = <<>>]
                /\ log' = [log EXCEPT ![sid] = <<>>]
           ELSE UNCHANGED <<sessions, log>>
        /\ loc' = [loc EXCEPT ![r] = Returned(Request("clear", sid, NoneN), Ok(<<>>, sid))]
        /\ pc' = [pc EXCEPT ![r] = "done"]
        /\ UNCHANGED <<max_history_per_session, detached, nextId, now>>

\* The GET /session/{id} route with get_session_info(sid): 404 for an id
\* that is not a key, else the session's to_dict()
OpInfo(r) ==
    \E sid \in ClientIds \ {NoneId} :
        /\ HandlerMayRun(r)
        /\ loc' = [loc EXCEPT ![r] =
                      Returned(Request("info", sid, NoneN),
                               IF sid \in DOMAIN sessions
                               THEN Ok(sessions[sid].messages, sid)
                               ELSE [NoResp EXCEPT !.status = 404])]
        /\ pc' = [pc EXCEPT ![r] = "done"]
        /\ UNCHANGED <<max_history_per_session, sessions, detached, nextId, now, log>>

\* del self.sessions[id] for each id of ids that is a key: the object lives
\* on while an add_message holds it.
UnregisterNothing(ids, r) == UNCHANGED <<sessions, log, detached>>
UnregisterAll(ids, r) ==
    /\ sessions' = EmptyReg
    /\ log' = EmptyReg
    /\ detached' = [i \in (DOMAIN detached) \cup
                         {j \in DOMAIN sessions : Held(j, r)} |->
                       IF i \in DOMAIN detached THEN detached[i] ELSE sessions[i]]
Unregister(ids, r) ==
    /\ sessions' = [i \in (DOMAIN sessions) \ ids |-> sessions[i]]
    /\ log' = [i \in (DOMAIN log) \ ids |-> log[i]]
    /\ detached' = [i \in (DOMAIN detached) \cup
                         {j \in ids \cap DOMAIN sessions : Held(j, r)} |->
                       IF i \in DOMAIN detached THEN detached[i] ELSE sessions[i]]

\* delete_session(sid)
OpDelete(r) ==
    \E sid \in ClientIds \ {NoneId} :
        /\ HandlerMayRun(r)
        /\ Unregister({sid}, r)
        /\ loc' = [loc EXCEPT ![r] = Returned(Request("delete", sid, NoneN), Ok(<<>>, sid))]
        /\ pc' = [pc EXCEPT ![r] = "done"]
        /\ UNCHANGED <<max_history_per_session, nextId, now>>

(* --------------------- cleanup_expired_sessions ----------------------- *)
\* lines 170-175: now = datetime.now(), then collect the expired identifiers
SweepExpired(t) == {i \in DOMAIN sessions : ExpiredOnSweep(sessions[i], t)}

SweepScan(r) ==
    /\ HandlerMayRun(r)
    /\ loc' = [loc EXCEPT ![r] = [Request("sweep", NoneId, NoneN) EXCEPT
                                     !.t = now, !.expired = SweepExpired(now)]]
    /\ pc' = [pc EXCEPT ![r] = "sw_del"]
    /\ UNCHANGED <<max_history_per_session, sessions, detached, nextId, now, log>>

\* lines 177-184: del self.sessions[id] for each, return len(expired);
\* del of an identifier that is no longer a key raises KeyError.
SweepDelete(r) ==
    /\ pc[r] = "sw_del"
    /\ Unregister(loc[r].expired, r)
    /\ loc' = [loc EXCEPT ![r] =
                  [Returned(loc[r], IF loc[r].expired \subseteq DOMAIN sessions
                                    THEN Ok(Cardinality(loc[r].expired), NoneId)
                                    ELSE [NoResp EXCEPT !.status = 500])
                      EXCEPT !.t = loc[r].t, !.expired = loc[r].expired]]
    /\ pc' = [pc EXCEPT ![r] = "done"]
    /\ UNCHANGED <<max_history_per_session, nextId, now>>

(* ------------------------ chat (routes.py) ---------------------------- *)
\* What vectordb_service.search can return: nothing, or results in the
\* index's order, among them the same chunk twice; never more than top_k.
SearchOutcomes(top_k) == {rs \in {<<>>, <<R1, R2, R1>>} : Len(rs) <= top_k}

\* lines 129-136: one label per result, kept if not already in the list
\* line 134: f"{result['source']} (chunk {result['chunk_id']})"; str(n) is
\* the decimal digits of n >= 0
Digit(d) == <<"0", "1", "2", "3", "4", "5", "6", "7", "8", "9">>[d + 1]
RECURSIVE Str(_)
Str(n) == IF n < 10 THEN <<Digit(n)>> ELSE Str(n \div 10) \o <<Digit(n % 10)>>
ChunkOpen == <<" ", "(", "c", "h", "u", "n", "k", " ">>
SourceLabel(result) == result.source \o ChunkOpen \o Str(result.chunk_id) \o <<")">>
SourcesKeepAll(results) == [i \in 1..Len(results) |-> SourceLabel(results[i])]
RECURSIVE Sources(_)
Sources(results) ==
    IF results = <<>> THEN <<>>
    ELSE LET rest == Sources(SubSeq(results, 1, Len(results) - 1))
             label == SourceLabel(results[Len(results)])
         IN  IF \E i \in 1..Len(rest) : rest[i] = label THEN rest ELSE Append(rest, label)

\* line 138: "\n\n".join(context_parts)
RECURSIVE JoinBlank(_)
JoinBlank(parts) ==
    IF Len(parts) <= 1 THEN parts
    ELSE JoinBlank(SubSeq(parts, 1, Len(parts) - 1)) \o <<"\n\n", parts[Len(parts)]>>
RECURSIVE DistinctTexts(_)
DistinctTexts(results) ==
    IF results = <<>> THEN <<>>
    ELSE LET front == DistinctTexts(SubSeq(results, 1, Len(results) - 1))
             t == results[Len(results)].text
         IN  IF \E k \in 1..Len(front) : front[k] = t THEN front ELSE Append(front, t)
ContextNoRepeat(results) == JoinBlank(DistinctTexts(results))
Context(results) == JoinBlank([i \in 1..Len(results) |-> results[i].text])

\* lines 162-164: any exception becomes a 500 response
Failed(l) == Returned(l, [NoResp EXCEPT !.status = 500])

ChatStart(r) ==
    \E sid \in ClientIds, query \in Queries :
        /\ HandlerMayRun(r)
        /\ Room(sid, 2)
        /\ loc' = [loc EXCEPT ![r] = [Request("chat", sid, NoneN) EXCEPT
                                         !.content = query, !.top_k = DefaultTopK,
                                         !.before = sessions]]
        /\ pc' = [pc EXCEPT ![r] = "c_embed"]
        /\ UNCHANGED <<max_history_per_session, sessions, detached, nextId, now, log>>

\* line 111: the embedding call returns a vector or raises
ChatEmbed(r) ==
    /\ pc[r] = "c_embed"
    /\ \/ /\ pc' = [pc EXCEPT ![r] = "c_search"]
          /\ UNCHANGED loc
       \/ /\ pc' = [pc EXCEPT ![r] = "done"]
          /\ loc' = [loc EXCEPT ![r] = Failed(loc[r])]
    /\ UNCHANGED <<max_history_per_session, sessions, detached, nextId, now, log>>

\* lines 114-118 and 129-138: the search returns at most top_k results or
\* raises; with results, the context block and the source labels are built
NoResultsNever(results) == FALSE
NoResults(results) == results = <<>>
ChatSearch(r) ==
    /\ pc[r] = "c_search"
    /\ \/ \E results \in SearchOutcomes(loc[r].top_k) :
             /\ loc' = [loc EXCEPT ![r].results = results,
                                   ![r].context = Context(results),
                                   ![r].sources = Sources(results)]
             /\ pc' = [pc EXCEPT ![r] = IF NoResults(results) THEN "c_fb_user"
                                        ELSE "c_history"]
       \/ /\ pc' = [pc EXCEPT ![r] = "done"]
          /\ loc' = [loc EXCEPT ![r] = Failed(loc[r])]
    /\ UNCHANGED <<max_history_per_session, sessions, detached, nextId, now, log>>

\* lines 120-123: the fallback answer; the user turn goes to request.session_id
ChatFallbackUser(r) ==
    /\ pc[r] = "c_fb_user"
    /\ EnterAddMessage(r, [loc[r] EXCEPT !.answer = FallbackAnswer],
                       loc[r].sid, "user", loc[r].content, "c_fb_asst")

\* lines 121 and 124: session_id is the first call's result; the answer goes to it
ChatFallbackAssistant(r) ==
    /\ pc[r] = "c_fb_asst"
    /\ EnterAddMessage(r, [loc[r] EXCEPT !.session_id = loc[r].am_result],
                       loc[r].am_result, "assistant", loc[r].answer, "c_fb_ret")

ChatResponse(l, sources) ==
    Returned(l, [NoResp EXCEPT !.status = 200, !.answer = l.answer,
                               !.sources = sources, !.session_id = l.session_id])

\* line 126
ChatFallbackReturn(r) ==
    /\ pc[r] = "c_fb_ret"
    /\ loc' = [loc EXCEPT ![r] = ChatResponse(loc[r], <<>>)]
    /\ pc' = [pc EXCEPT ![r] = "done"]
    /\ UNCHANGED <<max_history_per_session, sessions, detached, nextId, now, log>>

\* lines 141-143
ChatHistoryThroughGetSession(r) ==
    /\ pc[r] = "c_history"
    /\ get_session(loc[r].sid)
    /\ loc' = [loc EXCEPT ![r].history = GetConversationContext(loc[r].sid, HistoryLastN)]
    /\ pc' = [pc EXCEPT ![r] = "c_generate"]
    /\ UNCHANGED <<max_history_per_session, detached, now>>
ChatHistory(r) ==
    /\ pc[r] = "c_history"
    /\ loc' = [loc EXCEPT ![r].history = GetConversationContext(loc[r].sid, HistoryLastN)]
    /\ pc' = [pc EXCEPT ![r] = "c_generate"]
    /\ UNCHANGED <<max_history_per_session, sessions, detached, nextId, now, log>>

\* lines 146-150: the generation call returns an answer or raises; the
\* history is passed as None when it is empty text
ChatGenerate(r) ==
    LET call == [query |-> loc[r].content, context |-> loc[r].context,
                 has_history |-> loc[r].history # <<>>, history |-> loc[r].history]
        l == [loc[r] EXCEPT !.gen_calls = Append(@, call)]
    IN  /\ pc[r] = "c_generate"
        /\ \/ \E answer \in Answers :
                 /\ loc' = [loc EXCEPT ![r] = [l EXCEPT !.answer = answer]]
                 /\ pc' = [pc EXCEPT ![r] = "c_user"]
           \/ /\ pc' = [pc EXCEPT ![r] = "done"]
              /\ loc' = [loc EXCEPT ![r] = Failed(l)]
        /\ UNCHANGED <<max_history_per_session, sessions, detached, nextId, now, log>>

\* lines 153-155: the user turn goes to request.session_id
ChatStoreUser(r) ==
    /\ pc[r] = "c_user"
    /\ EnterAddMessage(r, loc[r], loc[r].sid, "user", loc[r].content, "c_asst")

\* lines 153 and 156: session_id is the first call's result; the answer goes to it
SecondTurnIdFromRequest(l) == l.sid
SecondTurnId(l) == l.am_result
ChatStoreAssistant(r) ==
    /\ pc[r] = "c_asst"
    /\ EnterAddMessage(r, [loc[r] EXCEPT !.session_id = loc[r].am_result],
                       SecondTurnId(loc[r]), "assistant", loc[r].answer, "c_ret")

\* line 160
ChatReturn(r) ==
    /\ pc[r] = "c_ret"
    /\ loc' = [loc EXCEPT ![r] = ChatResponse(loc[r], loc[r].sources)]
    /\ pc' = [pc EXCEPT ![r] = "done"]
    /\ UNCHANGED <<max_history_per_session, sessions, detached, nextId, now, log>>

(* ------------------------- environment --------------------------------- *)
\* The client takes the response; the request slot is free again.
Finish(r) ==
    /\ pc[r] = "done"
    /\ pc' = [pc EXCEPT ![r] = "idle"]
    /\ loc' = [loc EXCEPT ![r] = NoLoc]
    /\ UNCHANGED <<max_history_per_session, sessions, detached, nextId, now, log>>

\* Time passes between handlers: a handler runs within one reading of the
\* clock, whose step is the timeout.
Tick ==
    /\ now < MaxTicks * TickHours
    /\ \A q \in Reqs : Idle(q)
    /\ now' = now + TickHours
    /\ UNCHANGED <<max_history_per_session, sessions, detached, nextId, pc, loc, log>>

ChunkOff ==
    /\ text = <<>> /\ chunk_size = 1 /\ overlap = 0
    /\ words = <<>> /\ chunks = <<>> /\ chunk_i = 0 /\ chunk_pc = "off"

SourcesOff == src_results = <<>> /\ src_sources = <<>> /\ src_pc = "off" /\ src_context = <<>>

NoIndexResp == [status |-> 0, chunks_indexed |-> -1]

IndexOff ==
    /\ filename = <<>> /\ idx_pc = "off" /\ embeddings = <<>> /\ store = <<>>
    /\ nextPoint = 1 /\ idx_resp = NoIndexResp /\ embed_calls = 0
    /\ store_before = <<>> /\ docs = 0

Init ==
    /\ max_history_per_session \in 0..MaxHistoryBound
    /\ sessions = EmptyReg
    /\ detached = EmptyReg
    /\ nextId = 1
    /\ now = 0
    /\ pc = [r \in Reqs |-> "idle"]
    /\ loc = [r \in Reqs |-> NoLoc]
    /\ log = EmptyReg
    /\ ChunkOff /\ SourcesOff /\ IndexOff

Next ==
    \/ \E r \in Reqs : OpGetSession(r) /\ UNCHANGED <<cvars, qvars, ivars>>
    \/ \E r \in Reqs : OpHistory(r) /\ UNCHANGED <<cvars, qvars, ivars>>
    \/ \E r \in Reqs : OpContext(r) /\ UNCHANGED <<cvars, qvars, ivars>>
    \/ \E r \in Reqs : OpClear(r) /\ UNCHANGED <<cvars, qvars, ivars>>
    \/ \E r \in Reqs : OpDelete(r) /\ UNCHANGED <<cvars, qvars, ivars>>
    \/ \E r \in Reqs : OpInfo(r) /\ UNCHANGED <<cvars, qvars, ivars>>
    \/ \E r \in Reqs : OpStats(r) /\ UNCHANGED <<cvars, qvars, ivars>>
    \/ \E r \in Reqs : SweepScan(r) /\ UNCHANGED <<cvars, qvars, ivars>>
    \/ \E r \in Reqs : SweepDelete(r) /\ UNCHANGED <<cvars, qvars, ivars>>
    \/ \E r \in Reqs : ChatStart(r) /\ UNCHANGED <<cvars, qvars, ivars>>
    \/ \E r \in Reqs : ChatEmbed(r) /\ UNCHANGED <<cvars, qvars, ivars>>
    \/ \E r \in Reqs : ChatSearch(r) /\ UNCHANGED <<cvars, qvars, ivars>>
    \/ \E r \in Reqs : ChatFallbackUser(r) /\ UNCHANGED <<cvars, qvars, ivars>>
    \/ \E r \in Reqs : ChatFallbackAssistant(r) /\ UNCHANGED <<cvars, qvars, ivars>>
    \/ \E r \in Reqs : ChatFallbackReturn(r) /\ UNCHANGED <<cvars, qvars, ivars>>
    \/ \E r \in Reqs : ChatHistory(r) /\ UNCHANGED <<cvars, qvars, ivars>>
    \/ \E r \in Reqs : ChatGenerate(r) /\ UNCHANGED <<cvars, qvars, ivars>>
    \/ \E r \in Reqs : ChatStoreUser(r) /\ UNCHANGED <<cvars, qvars, ivars>>
    \/ \E r \in Reqs : ChatStoreAssistant(r) /\ UNCHANGED <<cvars, qvars, ivars>>
    \/ \E r \in Reqs : ChatReturn(r) /\ UNCHANGED <<cvars, qvars, ivars>>
    \/ \E r \in Reqs : AmAppend(r) /\ UNCHANGED <<cvars, qvars, ivars>>
    \/ \E r \in Reqs : AmTrunc(r) /\ UNCHANGED <<cvars, qvars, ivars>>
    \/ \E r \in Reqs : AmAssign(r) /\ UNCHANGED <<cvars, qvars, ivars>>
    \/ \E r \in Reqs : Finish(r) /\ UNCHANGED <<cvars, qvars, ivars>>
    \/ Tick /\ UNCHANGED <<cvars, qvars, ivars>>

Spec == Init /\ [][Next]_vars

(* ------------------- chunk_text (document.py) ------------------------- *)
\* A text is a sequence of characters; " " stands for any whitespace.
Chars == {"a", "b", " "}

RECURSIVE TextsUpTo(_)
TextsUpTo(n) == IF n = 0 THEN {<<>>}
                ELSE LET shorter == TextsUpTo(n - 1)
                     IN  shorter \cup {Append(t, c) : t \in {u \in shorter : Len(u) = n - 1},
                                                      c \in Chars}

\* str.split(): the maximal runs of characters that are not whitespace
RECURSIVE SplitFrom(_, _, _, _)
SplitFrom(t, i, acc, cur) ==
    IF i > Len(t) THEN (IF cur = <<>> THEN acc ELSE Append(acc, cur))
    ELSE IF t[i] = " "
         THEN SplitFrom(t, i + 1, IF cur = <<>> THEN acc ELSE Append(acc, cur), <<>>)
         ELSE SplitFrom(t, i + 1, acc, Append(cur, t[i]))
Split(t) == SplitFrom(t, 1, <<>>, <<>>)

\* " ".join(ws)
RECURSIVE JoinSpace(_)
JoinSpace(ws) == IF ws = <<>> THEN <<>>
                 ELSE IF Len(ws) = 1 THEN ws[1]
                 ELSE ws[1] \o <<" ">> \o JoinSpace(Tail(ws))

\* str.strip()
RECURSIVE Strip(_)
Strip(t) == IF t = <<>> THEN t
            ELSE IF t[1] = " " THEN Strip(Tail(t))
            ELSE IF t[Len(t)] = " " THEN Strip(SubSeq(t, 1, Len(t) - 1))
            ELSE t

\* ws[i:j] for 0 <= i
SliceFromStart(ws, i, j) == SubSeq(ws, 1, Min(j, Len(ws)))
Slice(ws, i, j) == SubSeq(ws, i + 1, Min(j, Len(ws)))

\* range(0, stop, step) for step # 0: whether i is one of its values
InRangeWholeSteps(i, stop, step) == IF step > 0 THEN i + step <= stop ELSE i > stop
InRange(i, stop, step) == IF step > 0 THEN i < stop ELSE i > stop

\* line 76 and the head of line 79: range() raises ValueError for a zero step
ChunkSplit ==
    /\ chunk_pc = "call"
    /\ words' = Split(text)
    /\ chunk_pc' = IF chunk_size - overlap = 0 THEN "ValueError" ELSE "loop"
    /\ UNCHANGED <<text, chunk_size, overlap, chunks, chunk_i>>

\* lines 79-82: one iteration
ChunkIteration ==
    LET chunk == JoinSpace(Slice(words, chunk_i, chunk_i + chunk_size))
    IN  /\ chunk_pc = "loop"
        /\ InRange(chunk_i, Len(words), chunk_size - overlap)
        /\ chunks' = IF Strip(chunk) # <<>> THEN Append(chunks, chunk) ELSE chunks
        /\ chunk_i' = chunk_i + (chunk_size - overlap)
        /\ UNCHANGED <<text, chunk_size, overlap, words, chunk_pc>>

\* line 84: the range is exhausted
ChunkReturn ==
    /\ chunk_pc = "loop"
    /\ ~InRange(chunk_i, Len(words), chunk_size - overlap)
    /\ chunk_pc' = "return"
    /\ UNCHANGED <<text, chunk_size, overlap, words, chunks, chunk_i>>

StoreOff ==
    /\ max_history_per_session = 0
    /\ sessions = EmptyReg /\ detached = EmptyReg /\ log = EmptyReg
    /\ nextId = 1 /\ now = 0
    /\ pc = [r \in Reqs |-> "idle"] /\ loc = [r \in Reqs |-> NoLoc]

InitChunk ==
    /\ text \in TextsUpTo(MaxTextLen)
    /\ chunk_size \in 0..MaxChunkSize
    /\ overlap \in 0..MaxOverlap
    /\ words = <<>> /\ chunks = <<>> /\ chunk_i = 0 /\ chunk_pc = "call"
    /\ StoreOff /\ SourcesOff /\ IndexOff

NextChunk ==
    \/ ChunkSplit /\ UNCHANGED <<svars, qvars, ivars>>
    \/ ChunkIteration /\ UNCHANGED <<svars, qvars, ivars>>
    \/ ChunkReturn /\ UNCHANGED <<svars, qvars, ivars>>

SpecChunk == InitChunk /\ [][NextChunk]_vars

(* ---------------- chat's source list (routes.py 129-136) --------------- *)
\* The rows a search can return: two file names, one of which ends like a
\* label, and chunk ids with one and two digits.
SourceNames == {<<"a">>, <<"a">> \o ChunkOpen \o <<"1", ")">>}
ChunkIds == {0, 1, 10}
RowTexts == {"t1", "t2"}
Rows == {[text |-> t, source |-> f, chunk_id |-> c] :
            t \in RowTexts, f \in SourceNames, c \in ChunkIds}

RECURSIVE ResultsUpTo(_)
ResultsUpTo(n) == IF n = 0 THEN {<<>>}
                  ELSE LET shorter == ResultsUpTo(n - 1)
                       IN  shorter \cup {Append(rs, row) :
                                            rs \in {u \in shorter : Len(u) = n - 1},
                                            row \in Rows}

\* lines 129-138 applied to the results of the search
SourcesBuild ==
    /\ src_pc = "results"
    /\ src_sources' = Sources(src_results)
    /\ src_context' = Context(src_results)
    /\ src_pc' = "built"
    /\ UNCHANGED src_results

InitSources ==
    /\ src_results \in ResultsUpTo(MaxResults)
    /\ src_sources = <<>> /\ src_context = <<>> /\ src_pc = "results"
    /\ StoreOff /\ ChunkOff /\ IndexOff

NextSources == SourcesBuild /\ UNCHANGED <<svars, cvars, ivars>>

SpecSources == InitSources /\ [][NextSources]_vars

(* ------------------ index_document (routes.py 40-93) ------------------ *)
\* File names as character sequences.
FileNames == {<<"a", ".", "t", "x", "t">>, <<"a", ".", "p", "d", "f">>,
              <<"a", ".", "P", "D", "F">>, <<"a", ".", "e", "x", "e">>}

\* str.lower() on the characters that occur
LowerChar(c) == IF c = "P" THEN "p" ELSE IF c = "D" THEN "d"
                ELSE IF c = "F" THEN "f" ELSE c
Lower(name) == [i \in 1..Len(name) |-> LowerChar(name[i])]
EndsWith(name, ext) ==
    Len(name) >= Len(ext) /\ SubSeq(name, Len(name) - Len(ext) + 1, Len(name)) = ext

\* DocumentService.validate_file_type
supported_extensions == {<<".", "p", "d", "f">>, <<".", "t", "x", "t">>}
ValidateAnyFileType(name) == TRUE
validate_file_type(name) == \E ext \in supported_extensions : EndsWith(Lower(name), ext)

\* The texts an extractor can return: words of one letter and whitespace.
DocTexts == {t \in TextsUpTo(MaxDocLen) : \A i \in 1..Len(t) : t[i] \in {"a", " "}}

\* The vector index outlives the process: at start it is empty or holds a
\* point of a document indexed earlier.
EarlierPoint == [id |-> 1, vector |-> [vector_of |-> <<"b">>],
                 payload |-> [text |-> <<"b">>, source |-> <<"b", ".", "t", "x", "t">>,
                              chunk_id |-> 0]]

\* One embedding vector per text, in order (generate_embeddings).
GenerateEmbeddings(texts) == [k \in 1..Len(texts) |-> [vector_of |-> texts[k]]]

\* store_embeddings lines 63-76: one point per (chunk, embedding) pair, with a
\* new uuid4 as id and the pair's position as chunk_id.
PointsOneBased(cs, es, name, first) ==
    [i \in 1..Min(Len(cs), Len(es)) |->
        [id |-> first + i - 1, vector |-> es[i],
         payload |-> [text |-> cs[i], source |-> name, chunk_id |-> i]]]
Points(cs, es, name, first) ==
    [i \in 1..Min(Len(cs), Len(es)) |->
        [id |-> first + i - 1, vector |-> es[i],
         payload |-> [text |-> cs[i], source |-> name, chunk_id |-> i - 1]]]

IndexResponse(status, n) == [status |-> status, chunks_indexed |-> n]
IndexError(status) == IndexResponse(status, NoIndexResp.chunks_indexed)

\* A request arrives; the handler's frame is new.
IndexStart ==
    /\ idx_pc = "idle" /\ docs < MaxDocs
    /\ \E name \in FileNames : filename' = name
    /\ docs' = docs + 1
    /\ idx_pc' = "validate"
    /\ idx_resp' = NoIndexResp /\ embeddings' = <<>> /\ embed_calls' = 0
    /\ store_before' = store
    /\ text' = <<>> /\ words' = <<>> /\ chunks' = <<>> /\ chunk_i' = 0 /\ chunk_pc' = "off"
    /\ UNCHANGED <<store, nextPoint, chunk_size, overlap>>

\* lines 51-54
IndexValidate ==
    /\ idx_pc = "validate"
    /\ IF validate_file_type(filename)
       THEN idx_pc' = "read" /\ UNCHANGED idx_resp
       ELSE idx_pc' = "done" /\ idx_resp' = IndexError(400)
    /\ UNCHANGED <<filename, embeddings, store, nextPoint, embed_calls, store_before, docs, cvars>>

\* lines 57-63: the file is read and its text extracted; the extractor
\* returns some text or raises
IndexExtract ==
    /\ idx_pc = "read"
    /\ \/ /\ \E t \in DocTexts : text' = t
          /\ idx_pc' = "check" /\ UNCHANGED idx_resp
       \/ /\ idx_pc' = "done" /\ idx_resp' = IndexError(500) /\ UNCHANGED text
    /\ UNCHANGED <<filename, embeddings, store, nextPoint, embed_calls, store_before, docs,
                   chunk_size, overlap, words, chunks, chunk_i, chunk_pc>>

\* lines 65-69: reject an empty text, else call chunk_text(text)
IndexCheckEmpty ==
    /\ idx_pc = "check"
    /\ IF Strip(text) = <<>>
       THEN idx_pc' = "done" /\ idx_resp' = IndexError(400) /\ UNCHANGED chunk_pc
       ELSE idx_pc' = "chunking" /\ chunk_pc' = "call" /\ UNCHANGED idx_resp
    /\ UNCHANGED <<filename, embeddings, store, nextPoint, embed_calls, store_before, docs,
                   text, chunk_size, overlap, words, chunks, chunk_i>>

\* line 69 returns, or its ValueError reaches line 91
IndexChunked ==
    /\ idx_pc = "chunking" /\ chunk_pc \in {"return", "ValueError"}
    /\ IF chunk_pc = "return"
       THEN idx_pc' = "embed" /\ UNCHANGED idx_resp
       ELSE idx_pc' = "done" /\ idx_resp' = IndexError(500)
    /\ UNCHANGED <<filename, embeddings, store, nextPoint, embed_calls, store_before, docs, cvars>>

\* line 73
IndexEmbed ==
    /\ idx_pc = "embed"
    /\ embed_calls' = embed_calls + 1
    /\ \/ /\ embeddings' = GenerateEmbeddings(chunks)
          /\ idx_pc' = "store" /\ UNCHANGED idx_resp
       \/ /\ idx_pc' = "done" /\ idx_resp' = IndexError(500) /\ UNCHANGED embeddings
    /\ UNCHANGED <<filename, store, nextPoint, store_before, docs, cvars>>

\* lines 76-87 with store_embeddings: the upsert stores every point, or
\* raises having stored some of them
IndexStore ==
    LET points == Points(chunks, embeddings, filename, nextPoint)
    IN  /\ idx_pc = "store"
        /\ nextPoint' = nextPoint + Len(points)
        /\ \/ /\ store' = store \o points
              /\ idx_resp' = IndexResponse(200, Len(points))
           \/ /\ \E k \in 0..Len(points) : store' = store \o SubSeq(points, 1, k)
              /\ idx_resp' = IndexError(500)
        /\ idx_pc' = "done"
        /\ UNCHANGED <<filename, embeddings, embed_calls, store_before, docs, cvars>>

\* The client takes the response.
IndexFinish ==
    /\ idx_pc = "done"
    /\ idx_pc' = "idle"
    /\ UNCHANGED <<filename, embeddings, store, nextPoint, idx_resp, embed_calls,
                   store_before, docs, cvars>>

\* settings.CHUNK_SIZE and settings.CHUNK_OVERLAP come from the environment.
InitIndex ==
    /\ chunk_size \in 0..MaxChunkSize
    /\ overlap \in 0..MaxOverlap
    /\ text = <<>> /\ words = <<>> /\ chunks = <<>> /\ chunk_i = 0 /\ chunk_pc = "off"
    /\ filename = <<>> /\ idx_pc = "idle" /\ embeddings = <<>>
    /\ store \in {<<>>, <<EarlierPoint>>}
    /\ nextPoint = Len(store) + 1
    /\ idx_resp = NoIndexResp /\ embed_calls = 0
    /\ store_before = store /\ docs = 0
    /\ StoreOff /\ SourcesOff

NextIndex ==
    \/ IndexStart /\ UNCHANGED <<svars, qvars>>
    \/ IndexValidate /\ UNCHANGED <<svars, qvars>>
    \/ IndexExtract /\ UNCHANGED <<svars, qvars>>
    \/ IndexCheckEmpty /\ UNCHANGED <<svars, qvars>>
    \/ ChunkSplit /\ UNCHANGED <<svars, qvars, ivars>>
    \/ ChunkIteration /\ UNCHANGED <<svars, qvars, ivars>>
    \/ ChunkReturn /\ UNCHANGED <<svars, qvars, ivars>>
    \/ IndexChunked /\ UNCHANGED <<svars, qvars>>
    \/ IndexEmbed /\ UNCHANGED <<svars, qvars>>
    \/ IndexStore /\ UNCHANGED <<svars, qvars>>
    \/ IndexFinish /\ UNCHANGED <<svars, qvars>>

SpecIndex == InitIndex /\ [][NextIndex]_vars

(* ------------- the history read of chat on longer histories ----------- *)
\* Histories of up to MaxMsgs messages, longer than the last_n of line 142.
Turns == {Message("user", "q1"), Message("assistant", "a1")}
RECURSIVE HistoriesUpTo(_)
HistoriesUpTo(n) == IF n = 0 THEN {<<>>}
                    ELSE LET shorter == HistoriesUpTo(n - 1)
                         IN  shorter \cup {Append(h, m) :
                                              h \in {u \in shorter : Len(u) = n - 1},
                                              m \in Turns}

\* A chat request that has its search results and is about to read the
\* history (line 141), on a registry of one session that has received the
\* messages h and was last written at time 0.
InitHistory ==
    \E h \in HistoriesUpTo(MaxMsgs), sid \in {NoneId, UnknownId, 1} :
        /\ max_history_per_session = MaxMsgs
        /\ sessions = Put(EmptyReg, 1, [session_id |-> 1, messages |-> h,
                                        max_history |-> MaxMsgs, last_access |-> 0])
        /\ log = Put(EmptyReg, 1, h)
        /\ detached = EmptyReg
        /\ nextId = 2
        /\ now \in {0, 2 * SessionTimeoutHours}
        /\ pc = [r \in Reqs |-> IF r = 1 THEN "c_history" ELSE "idle"]
        /\ loc = [r \in Reqs |->
                     IF r = 1
                     THEN [Request("chat", sid, NoneN) EXCEPT
                              !.content = "q1", !.top_k = DefaultTopK,
                              !.before = sessions,
                              !.results = <<R1, R2, R1>>,
                              !.context = Context(<<R1, R2, R1>>),
                              !.sources = Sources(<<R1, R2, R1>>)]
                     ELSE NoLoc]
        /\ ChunkOff /\ SourcesOff /\ IndexOff

NextHistory ==
    \/ ChatHistory(1) /\ UNCHANGED <<cvars, qvars, ivars>>
    \/ ChatGenerate(1) /\ UNCHANGED <<cvars, qvars, ivars>>

SpecHistory == InitHistory /\ [][NextHistory]_vars

\* ---- properties ----
\* The last k elements of s, for 0 <= k <= Len(s).
LastOf(s, k) == SubSeq(s, Len(s) - k + 1, Len(s))

\* An add_message has appended to session i and has not yet finished line 46.
InFlightOn(i) == \E r \in Reqs : pc[r] \in {"am_trunc", "am_assign"} /\ loc[r].sess = i

ChatDone(r) == pc[r] = "done" /\ loc[r].op = "chat"
UserTurn(r) == Message("user", loc[r].content)
AssistantTurn(r) == Message("assistant", loc[r].resp.answer)

\* C1: every registered session has at most max_history messages once the
\* add_message that appended has returned, for every max_history >= 0.
C1_HistoryWithinBound ==
    \A i \in DOMAIN sessions :
        ~InFlightOn(i) => Len(sessions[i].messages) <= sessions[i].max_history

\* C2: with max_history >= 1, a session's history is the last
\* min(n, max_history) of the n messages appended since it was last empty, in
\* the order they were appended.
C2_FifoEviction ==
    \A i \in DOMAIN sessions :
        (sessions[i].max_history >= 1 /\ ~InFlightOn(i)) =>
            sessions[i].messages =
                LastOf(log[i], Min(Len(log[i]), sessions[i].max_history))

C2_Witness ==
    \E i \in DOMAIN sessions :
        /\ sessions[i].max_history >= 1
        /\ Len(log[i]) > sessions[i].max_history
        /\ ~InFlightOn(i)
        /\ Len(sessions[i].messages) = sessions[i].max_history

C4_ExpiredAccessSeesNothing ==
    \A r \in Reqs :
        (/\ pc[r] = "done"
         /\ loc[r].op \in {"get_session", "history", "context"}
         /\ loc[r].sid \in DOMAIN sessions
         /\ ExpiredOnAccess(sessions[loc[r].sid]))
            => loc[r].resp.value = <<>>

\* C5 as stated: after a chat request whose session id is absent or unknown,
\* exactly one session was created and the user turn followed by the
\* assistant turn are in its history.
C5_BothTurnsInHistory ==
    \A r \in Reqs :
        (/\ ChatDone(r) /\ loc[r].resp.status = 200
         /\ (loc[r].sid = NoneId \/ loc[r].sid \notin DOMAIN loc[r].before))
            => LET s == loc[r].resp.session_id
                   h == sessions[s].messages
               IN  /\ loc[r].created = 1
                   /\ \E k \in 1..(Len(h) - 1) :
                         h[k] = UserTurn(r) /\ h[k + 1] = AssistantTurn(r)

\* C5: a chat request whose session id is absent or unknown creates exactly
\* one session, returns its identifier, and appends the user turn and then
\* the assistant turn to it; both are its history when max_history >= 2.
C5_OneSessionBothTurns ==
    \A r \in Reqs :
        (/\ ChatDone(r) /\ loc[r].resp.status = 200
         /\ (loc[r].sid = NoneId \/ loc[r].sid \notin DOMAIN loc[r].before))
            => LET s == loc[r].resp.session_id
               IN  /\ loc[r].created = 1
                   /\ s \notin DOMAIN loc[r].before
                   /\ DOMAIN sessions = (DOMAIN loc[r].before) \cup {s}
                   /\ log[s] = <<UserTurn(r), AssistantTurn(r)>>
                   /\ sessions[s].max_history >= 2
                         => sessions[s].messages = <<UserTurn(r), AssistantTurn(r)>>

C5_Witness ==
    \E r \in Reqs :
        /\ ChatDone(r) /\ loc[r].resp.status = 200
        /\ loc[r].sid = UnknownId
        /\ loc[r].before # EmptyReg
        /\ loc[r].created = 1
        /\ sessions[loc[r].resp.session_id].messages = <<UserTurn(r), AssistantTurn(r)>>

\* C6: when the search returns nothing, the response carries the fallback
\* answer, no sources and a registered session id; the user query and then
\* the fallback answer were appended to that session; generation was not called.
C6_FallbackRecorded ==
    \A r \in Reqs :
        (ChatDone(r) /\ loc[r].resp.status = 200 /\ loc[r].results = <<>>)
            => LET s == loc[r].resp.session_id
               IN  /\ loc[r].resp.answer = FallbackAnswer
                   /\ loc[r].resp.sources = <<>>
                   /\ loc[r].gen_calls = <<>>
                   /\ s \in DOMAIN sessions
                   /\ Len(log[s]) >= 2
                   /\ LastOf(log[s], 2) =
                         <<UserTurn(r), Message("assistant", FallbackAnswer)>>
                   /\ sessions[s].max_history >= 2
                         => LastOf(sessions[s].messages, 2) =
                               <<UserTurn(r), Message("assistant", FallbackAnswer)>>

C6_Witness ==
    \E r \in Reqs :
        /\ ChatDone(r) /\ loc[r].resp.status = 200 /\ loc[r].results = <<>>
        /\ loc[r].resp.answer = FallbackAnswer
        /\ sessions[loc[r].resp.session_id].max_history >= 2
        /\ Len(sessions[loc[r].resp.session_id].messages) = 2

\* C7: a chat request that ends in an error leaves the registry as it was
\* when the request started.
C7_NoPartialCommit ==
    \A r \in Reqs :
        (ChatDone(r) /\ loc[r].resp.status = 500)
            => sessions = loc[r].before /\ loc[r].created = 0

C7_Witness ==
    \E r \in Reqs :
        /\ ChatDone(r) /\ loc[r].resp.status = 500
        /\ loc[r].gen_calls # <<>>
        /\ loc[r].sid \in DOMAIN sessions
        /\ sessions[loc[r].sid].messages # <<>>
        /\ ExpiredOnAccess(sessions[loc[r].sid])

C10_NonPositiveStepNeverReturns ==
    chunk_pc = "return" => overlap < chunk_size


\* The number of values of range(0, n, step) for step > 0.
Windows(n, step) == (n + step - 1) \div step

\* C11: with 0 <= overlap < chunk_size and step = chunk_size - overlap, the
\* k-th chunk returned (0-based) is the words k*step .. min(k*step +
\* chunk_size, n) - 1 of text.split() joined by single spaces, it has at most
\* chunk_size words, and the loop's offsets are 0, step, 2*step, ...
C11_ChunkWindows ==
    (overlap < chunk_size /\ chunk_pc \in {"loop", "return"}) =>
        LET step == chunk_size - overlap
            n == Len(words)
        IN  /\ words = Split(text)
            /\ chunk_i = Len(chunks) * step
            /\ chunk_pc = "return" => Len(chunks) = Windows(n, step)
            /\ \A k \in 0..(Len(chunks) - 1) :
                  /\ k * step < n
                  /\ chunks[k + 1] =
                        JoinSpace([j \in 1..(Min(k * step + chunk_size, n) - k * step)
                                      |-> words[k * step + j]])
                  /\ Len(Split(chunks[k + 1])) <= chunk_size

C11_Witness ==
    /\ chunk_pc = "return"
    /\ 1 <= overlap /\ overlap < chunk_size
    /\ Len(chunks) >= 2
    /\ Len(Split(chunks[Len(chunks)])) < chunk_size
    /\ Len(Split(chunks[1])) = chunk_size

\* The position of the first result carrying label l.
FirstAt(l) ==
    CHOOSE i \in 1..Len(src_results) :
        /\ SourceLabel(src_results[i]) = l
        /\ \A j \in 1..(i - 1) : SourceLabel(src_results[j]) # l

\* C12: the sources list holds the label of every result exactly once, in
\* the order of first occurrence in the results; results with the same
\* (source, chunk_id) give one entry, results that differ in either give
\* different entries.
C12_SourcesFirstSeenOnce ==
    src_pc = "built" =>
        /\ \A i \in 1..Len(src_results) :
              Cardinality({k \in 1..Len(src_sources) :
                              src_sources[k] = SourceLabel(src_results[i])}) = 1
        /\ \A k \in 1..Len(src_sources) :
              \E i \in 1..Len(src_results) : src_sources[k] = SourceLabel(src_results[i])
        /\ \A k1, k2 \in 1..Len(src_sources) :
              k1 < k2 => FirstAt(src_sources[k1]) < FirstAt(src_sources[k2])
        /\ Len(src_sources) =
              Cardinality({<<src_results[i].source, src_results[i].chunk_id>> :
                              i \in 1..Len(src_results)})
        /\ \A i, j \in 1..Len(src_results) :
              (SourceLabel(src_results[i]) = SourceLabel(src_results[j]))
                  <=> (/\ src_results[i].source = src_results[j].source
                       /\ src_results[i].chunk_id = src_results[j].chunk_id)

C12_Witness ==
    /\ src_pc = "built"
    /\ Len(src_results) = 3
    /\ Len(src_sources) = 2
    /\ src_results[1] = src_results[3]
    /\ src_results[1].source = src_results[2].source

\* C13: a successful index request reports as chunks_indexed the number of
\* chunks chunk_text returned; the index gained one point per chunk, each
\* with an id no other point has, the k-th carrying chunk k's text, chunk_id
\* k (from 0) and the file's name; a failed request reports no count.
C13_IndexCount ==
    idx_pc = "done" =>
        IF idx_resp.status = 200
        THEN LET n == Len(chunks)
                 m == Len(store_before)
             IN  /\ chunk_pc = "return"
                 /\ idx_resp.chunks_indexed = n
                 /\ Len(store) = m + n
                 /\ SubSeq(store, 1, m) = store_before
                 /\ \A k \in 1..n :
                       /\ store[m + k].payload.text = chunks[k]
                       /\ store[m + k].payload.chunk_id = k - 1
                       /\ store[m + k].payload.source = filename
                       /\ \A j \in 1..(m + n) : j # m + k => store[j].id # store[m + k].id
        ELSE idx_resp.chunks_indexed = NoIndexResp.chunks_indexed

C13_Witness ==
    /\ idx_pc = "done" /\ idx_resp.status = 200
    /\ idx_resp.chunks_indexed = 2
    /\ Len(store_before) >= 1
    /\ Len(store) = Len(store_before) + 2

\* C14: get_conversation_history(id, last_n) returns the last
\* min(last_n, len(h)) messages of the session's history h for last_n >= 0
\* (none for last_n = 0), all of h when last_n is None, and the empty list
\* for an unknown or absent id.
C14_HistoryLastN ==
    \A r \in Reqs :
        (pc[r] = "done" /\ loc[r].op = "history") =>
            LET h == IF loc[r].sid \in DOMAIN sessions
                     THEN sessions[loc[r].sid].messages ELSE <<>>
                n == loc[r].last_n
            IN  /\ loc[r].resp.status = 200
                /\ loc[r].resp.value = IF n = NoneN THEN h ELSE LastOf(h, Min(n, Len(h)))

\* C15: cleanup_expired_sessions removes exactly the sessions whose age at
\* the sweep's clock reading exceeds the timeout, leaves the others as they
\* were, and returns the number removed; afterwards no registered session
\* is expired for that reading and the active count fell by the result.
C15_SweepExact ==
    [][\A r \in Reqs :
          (pc[r] = "sw_del" /\ pc'[r] = "done") =>
              LET t == loc[r].t
                  gone == {i \in DOMAIN sessions :
                              t - sessions[i].last_access > SessionTimeoutHours}
              IN  /\ t = now
                  /\ DOMAIN sessions' = (DOMAIN sessions) \ gone
                  /\ \A i \in DOMAIN sessions' : sessions'[i] = sessions[i]
                  /\ \A i \in DOMAIN sessions' :
                        ~(t - sessions'[i].last_access > SessionTimeoutHours)
                  /\ loc'[r].resp.status = 200
                  /\ loc'[r].resp.value = Cardinality(gone)
                  /\ ActiveCount(sessions') = ActiveCount(sessions) - loc'[r].resp.value]_vars

C15_Witness ==
    \E r \in Reqs :
        /\ pc[r] = "done" /\ loc[r].op = "sweep"
        /\ loc[r].resp.value = 1
        /\ \E i \in DOMAIN sessions :
              /\ loc[r].t - sessions[i].last_access = SessionTimeoutHours
              /\ sessions[i].messages # <<>>

\* C16: clear_session on a known id empties that session's messages and
\* keeps its entry; delete_session on a known id removes the entry; on an
\* unknown id both leave the registry as it is and return normally; a clear
\* of an already cleared session and a delete of an already deleted id change
\* nothing, so each applied twice gives the registry of applying it once.
C16_ClearDeleteIdempotent ==
    [][\A r \in Reqs :
          (pc[r] = "idle" /\ pc'[r] = "done" /\ loc'[r].op \in {"clear", "delete"}) =>
              LET sid == loc'[r].sid
                  known == sid \in DOMAIN sessions
                  others == (DOMAIN sessions) \ {sid}
              IN  /\ loc'[r].resp.status = 200
                  /\ ~known => sessions' = sessions
                  /\ (known /\ loc'[r].op = "clear") =>
                        /\ DOMAIN sessions' = DOMAIN sessions
                        /\ sessions'[sid].messages = <<>>
                        /\ sessions'[sid].session_id = sid
                        /\ \A i \in others : sessions'[i] = sessions[i]
                        /\ sessions[sid].messages = <<>> => sessions' = sessions
                  /\ (known /\ loc'[r].op = "delete") =>
                        /\ DOMAIN sessions' = others
                        /\ \A i \in others : sessions'[i] = sessions[i]]_vars

C16_Witness ==
    \E r \in Reqs :
        /\ pc[r] = "done" /\ loc[r].op = "delete"
        /\ loc[r].sid \in IssuedIds \ DOMAIN sessions
        /\ \E i \in DOMAIN sessions : sessions[i].messages # <<>>

\* C17: clear, delete and the session-info lookup report "not found" (404
\* at the HTTP boundary) for an id that is not in the registry, never a
\* success.
C17_UnknownIdNotFound ==
    [][\A r \in Reqs :
          (/\ pc[r] = "idle" /\ pc'[r] = "done"
           /\ loc'[r].op \in {"clear", "delete", "info"}
           /\ loc'[r].sid \notin DOMAIN sessions)
              => loc'[r].resp.status = 404]_vars

\* C18: after add_message (a chat), get_session on a known id,
\* get_conversation_history or get_conversation_context has returned, the
\* session it accessed has last_access equal to the time of the access.
C18_AccessRefreshesLastAccess ==
    \A r \in Reqs :
        (/\ pc[r] = "done" /\ loc[r].resp.status = 200
         /\ loc[r].op \in {"chat", "get_session", "history", "context"}
         /\ loc[r].resp.session_id \in DOMAIN sessions)
            => sessions[loc[r].resp.session_id].last_access = now

\* What a get_session(sid) that returned session ret did to the registry.
GetOrCreated(sid, ret) ==
    IF sid = NoneId \/ sid \notin DOMAIN sessions
    THEN /\ ret \notin DOMAIN sessions /\ ret \notin IssuedIds /\ ret # sid
         /\ DOMAIN sessions' = (DOMAIN sessions) \cup {ret}
         /\ ActiveCount(sessions') = ActiveCount(sessions) + 1
         /\ sid \notin DOMAIN sessions'
         /\ sessions'[ret].session_id = ret
         /\ sessions'[ret].messages = <<>>
         /\ sessions'[ret].max_history = max_history_per_session
         /\ \A i \in DOMAIN sessions : sessions'[i] = sessions[i]
    ELSE /\ ret = sid
         /\ DOMAIN sessions' = DOMAIN sessions
         /\ sessions'[sid].session_id = sid
         /\ \A i \in (DOMAIN sessions) \ {sid} : sessions'[i] = sessions[i]

\* C19: get_session with an absent or unknown id registers one new session,
\* under an id never issued before, with empty history and the service's
\* bound, and changes no other session; the supplied id is not registered.
\* With a known id it returns that session and adds no entry.  Checked at
\* every call: on its own and from add_message.
C19_GetOrCreate ==
    [][\A r \in Reqs :
          /\ (pc[r] = "idle" /\ pc'[r] = "done" /\ loc'[r].op = "get_session")
                => GetOrCreated(loc'[r].sid, loc'[r].resp.session_id)
          /\ (pc[r] # "am_append" /\ pc'[r] = "am_append")
                => GetOrCreated(loc'[r].am_sid, loc'[r].sess)]_vars

C19_Witness ==
    \E r \in Reqs :
        /\ pc[r] = "done" /\ loc[r].op = "get_session"
        /\ loc[r].sid = UnknownId
        /\ loc[r].created = 1
        /\ loc[r].resp.session_id \in DOMAIN sessions
        /\ \E i \in DOMAIN sessions :
              i # loc[r].resp.session_id /\ sessions[i].messages # <<>>

\* C20: an index request whose file name does not end (case-insensitively)
\* in .pdf or .txt, or whose extracted text is empty after strip(), ends
\* with status 400; chunk_text was not called, generate_embeddings was not
\* called and the vector index is as it was.
C20_IndexValidation ==
    [][(\/ /\ idx_pc = "validate"
           /\ ~(\/ EndsWith(Lower(filename), <<".", "p", "d", "f">>)
                \/ EndsWith(Lower(filename), <<".", "t", "x", "t">>))
        \/ /\ idx_pc = "check"
           /\ \A i \in 1..Len(text) : text[i] = " ")
          => /\ idx_pc' = "done"
             /\ idx_resp'.status = 400
             /\ idx_resp'.chunks_indexed = NoIndexResp.chunks_indexed
             /\ chunk_pc' = "off" /\ words' = <<>> /\ chunks' = <<>>
             /\ embed_calls' = 0 /\ embeddings' = <<>>
             /\ store' = store_before /\ store' = store]_vars

C20_Witness ==
    /\ idx_pc = "done" /\ idx_resp.status = 400
    /\ validate_file_type(filename)
    /\ text # <<>>
    /\ chunk_pc = "off" /\ embed_calls = 0
    /\ store = store_before /\ store # <<>>

\* Request r runs get_session(sid) in this step: called on its own, or as
\* the first statement of add_message.
CallsGetSession(r, sid) ==
    \/ pc[r] = "idle" /\ pc'[r] = "done" /\ loc'[r].op = "get_session" /\ loc'[r].sid = sid
    \/ pc[r] # "am_append" /\ pc'[r] = "am_append" /\ loc'[r].am_sid = sid

\* C21: lazy expiry empties the session's messages and keeps its entry and
\* its id; an id leaves the registry only in a step of delete_session(id) or
\* of the sweep, so no other operation lowers the number of sessions.
C21_ExpiryKeepsEntry ==
    [][LET removed == (DOMAIN sessions) \ (DOMAIN sessions')
       IN  /\ removed # {} =>
                \E r \in Reqs :
                    \/ /\ pc[r] = "idle" /\ pc'[r] = "done" /\ loc'[r].op = "delete"
                       /\ removed = {loc'[r].sid}
                    \/ /\ pc[r] = "sw_del" /\ pc'[r] = "done"
                       /\ removed \subseteq loc[r].expired
           /\ removed = {} => ActiveCount(sessions') >= ActiveCount(sessions)
           /\ \A r \in Reqs, sid \in DOMAIN sessions :
                 (/\ CallsGetSession(r, sid)
                  /\ now - sessions[sid].last_access > SessionTimeoutHours)
                    => /\ sid \in DOMAIN sessions'
                       /\ sessions'[sid].session_id = sid
                       /\ sessions'[sid].messages = <<>>
                       /\ DOMAIN sessions' = DOMAIN sessions]_vars

C21_Witness ==
    \E r \in Reqs :
        /\ ChatDone(r) /\ loc[r].resp.status = 200 /\ loc[r].results = <<>>
        /\ loc[r].sid \in DOMAIN loc[r].before
        /\ sessions[loc[r].sid].last_access - loc[r].before[loc[r].sid].last_access
              > SessionTimeoutHours
        /\ loc[r].before[loc[r].sid].messages # <<>>
        /\ loc[r].resp.session_id = loc[r].sid
        /\ DOMAIN sessions = DOMAIN loc[r].before

\* The session named by chat request r was registered when the request
\* started and had expired by the time the request appended to it: the
\* append set last_access to the request's clock reading.
ChatOnExpired(r) ==
    /\ loc[r].sid \in DOMAIN loc[r].before
    /\ loc[r].sid \in DOMAIN sessions
    /\ sessions[loc[r].sid].last_access - loc[r].before[loc[r].sid].last_access
          > SessionTimeoutHours

\* C22: a chat request that names an expired session and gets search results
\* passes no history to generation, and afterwards the session's history is
\* exactly the request's user turn followed by its assistant turn.
C22_ExpiredChatStartsFresh ==
    \A r \in Reqs :
        (/\ ChatDone(r) /\ loc[r].resp.status = 200 /\ loc[r].results # <<>>
         /\ ChatOnExpired(r)
         /\ sessions[loc[r].sid].max_history >= 2)
            => /\ Len(loc[r].gen_calls) = 1
               /\ ~loc[r].gen_calls[1].has_history
               /\ sessions[loc[r].sid].messages = <<UserTurn(r), AssistantTurn(r)>>


\* Request r is inside add_message for the given role.
Appending(p, l, role) ==
    p \in {"am_append", "am_trunc", "am_assign"} /\ l.am_role = role

\* The statement of chat that request r must have just executed to stand at
\* position p2 with locals l2, coming from position p1 with locals l1.
ComesFrom(p1, l1, p2, l2) ==
    CASE p2 = "c_embed"    -> p1 \in {"idle", "done"}
      [] p2 = "c_search"   -> p1 = "c_embed"
      [] p2 = "c_history"  -> p1 = "c_search" /\ l2.results # <<>>
      [] p2 = "c_generate" -> p1 = "c_history"
      [] p2 = "c_user"     -> p1 = "c_generate" /\ Len(l2.gen_calls) = 1
      [] p2 = "c_fb_user"  -> p1 = "c_search" /\ l2.results = <<>>
      [] p2 = "am_append"  -> \/ p1 \in {"c_user", "c_fb_user"} /\ l2.am_role = "user"
                              \/ p1 \in {"c_asst", "c_fb_asst"} /\ l2.am_role = "assistant"
      [] p2 = "am_trunc"   -> p1 = "am_append"
      [] p2 = "am_assign"  -> p1 = "am_trunc"
      [] p2 = "c_asst"     -> Appending(p1, l1, "user") /\ l1.after = "c_asst"
      [] p2 = "c_fb_asst"  -> Appending(p1, l1, "user") /\ l1.after = "c_fb_asst"
      [] p2 = "c_ret"      -> Appending(p1, l1, "assistant") /\ l1.after = "c_ret"
      [] p2 = "c_fb_ret"   -> Appending(p1, l1, "assistant") /\ l1.after = "c_fb_ret"
      [] OTHER             -> TRUE

\* C23: one chat request calls embed, search, the history read, generate,
\* the append of the user turn and the append of the assistant turn in that
\* order and each at most once; generate is called only with a non-empty
\* result list; the session store is written only after generate has
\* returned or after a search that returned nothing.
C23_CallOrder ==
    [][\A r \in Reqs :
          (pc'[r] # pc[r] /\ loc'[r].op = "chat") =>
              /\ ComesFrom(pc[r], loc[r], pc'[r], loc'[r])
              /\ Len(loc'[r].gen_calls) <= 1
              /\ pc[r] = "c_generate" =>
                    /\ loc[r].results # <<>>
                    /\ loc[r].gen_calls = <<>> /\ Len(loc'[r].gen_calls) = 1
              /\ pc[r] # "c_generate" => loc'[r].gen_calls = loc[r].gen_calls
              /\ (sessions' # sessions \/ log' # log \/ nextId' # nextId) =>
                    /\ pc[r] \in {"c_user", "c_asst", "c_fb_user", "c_fb_asst",
                                  "am_append", "am_trunc", "am_assign"}
                    /\ \/ Len(loc[r].gen_calls) = 1 /\ loc'[r].answer \in Answers
                       \/ loc[r].results = <<>> /\ loc[r].gen_calls = <<>>
                                                /\ loc'[r].answer = FallbackAnswer]_vars

C23_Witness ==
    \E r \in Reqs :
        /\ ChatDone(r) /\ loc[r].resp.status = 200
        /\ loc[r].results # <<>>
        /\ Len(loc[r].gen_calls) = 1
        /\ loc[r].gen_calls[1].has_history
        /\ sessions # loc[r].before

\* C24: after a chat request that used search results and returned session
\* id s, with max_history >= 2 the last two messages of s are the user turn
\* with the query and the assistant turn with the returned answer; s is the
\* request's session id whenever that id was registered.
C24_RecordedTurns ==
    \A r \in Reqs :
        (/\ ChatDone(r) /\ loc[r].resp.status = 200 /\ loc[r].results # <<>>)
            => LET s == loc[r].resp.session_id
               IN  /\ s \in DOMAIN sessions
                   /\ loc[r].sid \in DOMAIN loc[r].before => s = loc[r].sid
                   /\ loc[r].resp.answer \in Answers
                   /\ UserTurn(r).content = loc[r].gen_calls[1].query
                   /\ sessions[s].max_history >= 2 =>
                         /\ Len(sessions[s].messages) >= 2
                         /\ LastOf(sessions[s].messages, 2)
                               = <<UserTurn(r), AssistantTurn(r)>>

C24_Witness ==
    \E r \in Reqs :
        /\ ChatDone(r) /\ loc[r].resp.status = 200 /\ loc[r].results # <<>>
        /\ loc[r].sid \in DOMAIN loc[r].before
        /\ ~ChatOnExpired(r)
        /\ loc[r].before[loc[r].sid].messages # <<>>
        /\ sessions[loc[r].sid].max_history >= 2
        /\ LastOf(sessions[loc[r].sid].messages, 2) = <<UserTurn(r), AssistantTurn(r)>>

\* C25: the history passed to generation is the header line followed by at
\* most the last 5 messages of the request's session as it was before the
\* request, in order, one line per message; when the session id is absent or
\* unknown, or the session has no messages, no history is passed.
C25_HistoryToGeneration ==
    (loc[1].op = "chat" /\ loc[1].gen_calls # <<>>) =>
        LET call == loc[1].gen_calls[1]
            h == IF loc[1].sid \in DOMAIN loc[1].before
                 THEN loc[1].before[loc[1].sid].messages ELSE <<>>
            k == Min(HistoryLastN, Len(h))
            tail == LastOf(h, k)
        IN  /\ call.has_history <=> h # <<>>
            /\ h # <<>> =>
                  /\ Len(call.history) = k + 1
                  /\ call.history[1] = HistoryHeader
                  /\ \A i \in 1..k :
                        call.history[i + 1]
                           = <<Capitalize(tail[i].role), ": ", tail[i].content>>

C25_Witness ==
    /\ loc[1].op = "chat" /\ loc[1].gen_calls # <<>>
    /\ loc[1].sid \in DOMAIN loc[1].before
    /\ Len(loc[1].before[loc[1].sid].messages) > HistoryLastN
    /\ Len(loc[1].gen_calls[1].history) = HistoryLastN + 1
    /\ loc[1].before[loc[1].sid].messages[1]
          # loc[1].before[loc[1].sid].messages[Len(loc[1].before[loc[1].sid].messages)]

\* C26: for a non-empty result list the context block is the texts of all
\* results, in result order and with repeated results included, separated by
\* a blank line; the number of source labels is at least 1 and at most the
\* number of results.
C26_ContextBlock ==
    (src_pc = "built" /\ src_results # <<>>) =>
        LET n == Len(src_results)
        IN  /\ Len(src_context) = 2 * n - 1
            /\ \A i \in 1..n : src_context[2 * i - 1] = src_results[i].text
            /\ \A i \in 1..(n - 1) : src_context[2 * i] = "\n\n"
            /\ 1 <= Len(src_sources)
            /\ Len(src_sources) <= n

C26_Witness ==
    /\ src_pc = "built"
    /\ Len(src_results) = 3
    /\ src_results[1] = src_results[3]
    /\ src_results[1].text # src_results[2].text
    /\ Len(src_context) = 5
    /\ Len(src_sources) < Len(src_results)

\* Request r runs a read in this step: get_conversation_history,
\* get_conversation_context (on its own or as chat's history read),
\* get_session_info or get_active_sessions_count.
ReadStep(r) ==
    \/ /\ pc[r] = "idle" /\ pc'[r] = "done"
       /\ loc'[r].op \in {"history", "context", "info", "stats"}
    \/ pc[r] = "c_history" /\ pc'[r] # "c_history"

\* C27: the read operations change nothing: the set of registered ids,
\* every session's messages, bound and last_access, the id counter and the
\* configuration are the same after the read as before it.
C27_ReadsChangeNothing ==
    [][\A r \in Reqs :
          ReadStep(r) =>
              /\ sessions' = sessions
              /\ detached' = detached
              /\ log' = log
              /\ nextId' = nextId
              /\ max_history_per_session' = max_history_per_session
              /\ now' = now]_vars

C27_Witness ==
    \E r \in Reqs, i \in DOMAIN sessions :
        /\ pc[r] = "done" /\ loc[r].op = "stats"
        /\ loc[r].resp.value = <<ActiveCount(sessions)>>
        /\ ActiveCount(sessions) >= 2
        /\ sessions[i].messages # <<>>
        /\ ExpiredOnAccess(sessions[i])

\* The session that request r's step operates on: the id given to
\* get_session, clear_session or delete_session (the id returned, for a
\* get_session that creates), or the session an add_message is working on.
\* NoneId when the step is not one of these operations.
TargetOf(r) ==
    IF pc[r] = "idle" /\ pc'[r] = "done" /\ loc'[r].op \in {"clear", "delete"}
    THEN loc'[r].sid
    ELSE IF pc[r] = "idle" /\ pc'[r] = "done" /\ loc'[r].op = "get_session"
    THEN loc'[r].resp.session_id
    ELSE IF pc[r] # "am_append" /\ pc'[r] = "am_append"
    THEN loc'[r].sess
    ELSE IF pc[r] \in {"am_append", "am_trunc", "am_assign"}
    THEN loc[r].sess
    ELSE NoneId

\* C28: add_message, clear, delete and lazy expiry on session a leave every
\* other registered session registered, with the same messages, bound and
\* last_access.
C28_SessionIsolation ==
    [][\A r \in Reqs :
          TargetOf(r) # NoneId =>
              \A b \in (DOMAIN sessions) \ {TargetOf(r)} :
                  /\ b \in DOMAIN sessions'
                  /\ sessions'[b] = sessions[b]
                  /\ log'[b] = log[b]]_vars

C28_Witness ==
    \E r \in Reqs, b \in DOMAIN sessions :
        /\ pc[r] = "done" /\ loc[r].op = "chat" /\ loc[r].resp.status = 200
        /\ ChatOnExpired(r)
        /\ b # loc[r].sid
        /\ b \in DOMAIN loc[r].before
        /\ sessions[b] = loc[r].before[b]
        /\ sessions[b].messages # <<>>
        /\ now - sessions[b].last_access > SessionTimeoutHours

\* The word positions (1-based) of text.split() that the k-th chunk returned
\* (1-based) stands for, given the step between chunk starts.
Positions(k, step) ==
    ((k - 1) * step + 1)..((k - 1) * step + Len(Split(chunks[k])))

\* C29: for a text of n >= 1 words and 0 <= overlap < chunk_size, chunk_text
\* returns exactly ceil(n / step) chunks with step = chunk_size - overlap,
\* none of them empty; every word position is in at least one chunk; two
\* consecutive chunks that both have chunk_size words share exactly overlap
\* words. A text with no words gives no chunk.
C29_ChunkCoverage ==
    (chunk_pc = "return" /\ overlap < chunk_size) =>
        LET step == chunk_size - overlap
            ws == Split(text)
            n == Len(ws)
            m == Len(chunks)
        IN  /\ n = 0 => m = 0
            /\ n >= 1 => (m - 1) * step < n /\ n <= m * step
            /\ \A k \in 1..m : chunks[k] # <<>> /\ Len(Split(chunks[k])) >= 1
            /\ \A p \in 1..n :
                  \E k \in 1..m :
                      /\ p \in Positions(k, step)
                      /\ Split(chunks[k])[p - (k - 1) * step] = ws[p]
            /\ \A k \in 1..(m - 1) :
                  (/\ Len(Split(chunks[k])) = chunk_size
                   /\ Len(Split(chunks[k + 1])) = chunk_size)
                     => /\ Cardinality(Positions(k, step) \cap Positions(k + 1, step))
                              = overlap
                        /\ LastOf(Split(chunks[k]), overlap)
                              = SubSeq(Split(chunks[k + 1]), 1, overlap)

C29_Witness ==
    /\ chunk_pc = "return"
    /\ 1 <= overlap /\ overlap < chunk_size
    /\ Len(Split(text)) >= 3
    /\ \E k \in 1..(Len(chunks) - 1) :
          /\ Len(Split(chunks[k])) = chunk_size
          /\ Len(Split(chunks[k + 1])) = chunk_size
          /\ Split(chunks[k])[1] # Split(chunks[k + 1])[1]

\* C30: an access clears a session exactly when a sweep at the same instant
\* would remove it: both test age > timeout, so a session whose age equals
\* the timeout is kept by both.
C30_LazyAndSweepAgree ==
    [][\A r \in Reqs :
          /\ \A sid \in DOMAIN sessions :
                CallsGetSession(r, sid) =>
                    LET cleared == /\ sessions'[sid].messages = <<>>
                                   /\ log'[sid] = <<>>
                        kept == sessions'[sid] = sessions[sid] /\ log'[sid] = log[sid]
                    IN  /\ sid \in SweepExpired(now) => cleared
                        /\ sid \notin SweepExpired(now) => kept
                        /\ now - sessions[sid].last_access = SessionTimeoutHours => kept
          /\ (pc[r] = "idle" /\ pc'[r] = "sw_del") =>
                /\ loc'[r].expired = {i \in DOMAIN sessions : ExpiredOnAccess(sessions[i])}
                /\ \A i \in DOMAIN sessions :
                      now - sessions[i].last_access = SessionTimeoutHours
                         => i \notin loc'[r].expired]_vars

C30_Witness ==
    \E r \in Reqs :
        /\ pc[r] = "done" /\ loc[r].op = "get_session"
        /\ loc[r].sid \in DOMAIN sessions
        /\ now - sessions[loc[r].sid].last_access = SessionTimeoutHours
        /\ loc[r].resp.value # <<>>
        /\ loc[r].resp.value = sessions[loc[r].sid].messages
        /\ SweepExpired(now) = {}
=============================================================================
